---------------------------- MODULE Spec2Model ----------------------------
(***************************************************************************)
(* A model of the YAML translator tool: the tree flattener, the            *)
(* placeholder-preserving small-caps transcoder and the batched            *)
(* translation pipeline with its telemetry, the file handlers of the       *)
(* formatter and the reverser, and the license manager.                    *)
(*                                                                         *)
(* Text is a sequence of code points, each code point a one-element        *)
(* string token.  The small-caps glyph of the letter c is written "sc_c"   *)
(* (one code point); the letters s and x are their own glyphs, as in the   *)
(* source tables.                                                          *)
(***************************************************************************)
EXTENDS Integers, Sequences, FiniteSets, TLC

VARIABLES
    capsPc,     \* transcoder run: "idle", "input", "encoded", "decoded", "reversed"
    capsIn,     \* the value handed to to_small_caps
    capsOut,    \* to_small_caps(capsIn)
    capsBack,   \* from_small_caps(capsOut); from_small_caps(capsIn) when reversed
    treePc,     \* flattener run: "input", "flat", "rebuilt"
    treeIn,     \* the nested mapping handed to flatten_yaml
    flat,       \* flatten_yaml(treeIn)
    rebuilt,    \* unflatten_yaml(flat)
    planPc,     \* planner run: "idle", "input", "planned", "raised"
    planItems,  \* the entries handed to chunked
    planSize,   \* the batch size handed to chunked
    planOut,    \* list(chunked(planItems, planSize))
    parsePc,    \* parser run: "idle", "input", "parsed"
    parseIn,    \* a line of the response
    parseOut,   \* what the parsing loop appends to translated_batch for it
    filePc,     \* file handler run: "idle", "input", "done", "raised"
    fileOp,     \* the handler that ran: "format" or "reverse"; None before
    fileSrc,    \* the input file of the handler
    processed,  \* the flat dict the handler's loop fills
    total_count,
    converted_count,
    fileResult, \* result = unflatten_yaml(processed); None while there is none
    fileOut,    \* the handler's output file: None while there is none
    fileReturned, \* what the handler returned
    licPc,      \* license manager: "idle", or "ready" once constructed
    license_file,    \* the key in the license file: None while there is no file
    cached_license,  \* _cached_license: None, or the Key of the license object
    license_valid,   \* _license_valid: None, or a BoolVal
    licOp,      \* the last method called; None before
    licReturned, \* what it returned (its first component for verify_license)
    pc,         \* translation run: where translate_yaml_file stands
    settings,   \* self.settings: batch_size, max_retries
    source,     \* what loading the input file yields
    output,     \* the Output Map: flat dict of the final values
    translatable_items,  \* the queued (key, value) entries
    chunks,     \* the planned batches
    batch_num,  \* number of the batch in hand (1-based), 0 before the loop
    attempt,    \* the retry loop's counter for the batch in hand
    calls,      \* API calls made for the batch in hand
    resp,       \* the content of the response to the batch in hand
    delays,     \* the time.sleep calls of the batch in hand, in order
    batchOk,    \* what process_batch returned, batch by batch
    warned,     \* the keys reported "Missing translation"
    translated_count,
    telemetry,  \* BatchTelemetry.batches
    now,        \* the clock time.time() reads
    total_start,
    disk,       \* the output file: None while there is none
    backup,     \* the backup file: None while there is none
    history,    \* the history entry of the run: None while there is none
    returned    \* what translate_yaml_file returned

capsVars == <<capsPc, capsIn, capsOut, capsBack>>
treeVars == <<treePc, treeIn, flat, rebuilt>>
runVars == <<pc, settings, source, output, translatable_items, chunks, batch_num,
             attempt, calls, resp, delays, batchOk,
             warned, translated_count, telemetry, now, total_start, disk, backup,
             history, returned>>
planVars == <<planPc, planItems, planSize, planOut>>
parseVars == <<parsePc, parseIn, parseOut>>
fileVars == <<filePc, fileOp, fileSrc, processed, total_count, converted_count,
              fileResult, fileOut, fileReturned>>
licVars == <<licPc, license_file, cached_license, license_valid, licOp, licReturned>>
otherThanCaps == <<treeVars, planVars, parseVars, fileVars, licVars, runVars>>
otherThanTree == <<capsVars, planVars, parseVars, fileVars, licVars, runVars>>
otherThanRun == <<capsVars, treeVars, planVars, parseVars, fileVars, licVars>>
otherThanPlan == <<capsVars, treeVars, parseVars, fileVars, licVars, runVars>>
otherThanParse == <<capsVars, treeVars, planVars, fileVars, licVars, runVars>>
otherThanFile == <<capsVars, treeVars, planVars, parseVars, licVars, runVars>>
otherThanLic == <<capsVars, treeVars, planVars, parseVars, fileVars, runVars>>

(***************************************************************************)
(* Values.  A leaf value of a document is a string or a non-string scalar. *)
(***************************************************************************)
Str(s) == [t |-> "str", s |-> s]
IntVal(n) == [t |-> "int", n |-> n]
BoolVal(b) == [t |-> "bool", b |-> b]
NullVal == [t |-> "null"]
ListVal(l) == [t |-> "list", l |-> l]
IsStr(v) == v.t = "str"
None == [t |-> "none"]

(***************************************************************************)
(* Code points.                                                            *)
(***************************************************************************)
ToLower ==
    "A" :> "a" @@ "B" :> "b" @@ "C" :> "c" @@ "D" :> "d" @@ "E" :> "e" @@
    "F" :> "f" @@ "G" :> "g" @@ "H" :> "h" @@ "I" :> "i" @@ "J" :> "j" @@
    "K" :> "k" @@ "L" :> "l" @@ "M" :> "m" @@ "N" :> "n" @@ "O" :> "o" @@
    "P" :> "p" @@ "Q" :> "q" @@ "R" :> "r" @@ "S" :> "s" @@ "T" :> "t" @@
    "U" :> "u" @@ "V" :> "v" @@ "W" :> "w" @@ "X" :> "x" @@ "Y" :> "y" @@
    "Z" :> "z"

\* a lowering that forgets the capitals
LowerNone(c) == c

\* str.lower() of one code point; "K_sign" is U+212A KELVIN SIGN, the one code
\* point outside A-Z that lowers to a letter of a-z
Lower(c) ==
    IF c = "K_sign" THEN "k"
    ELSE IF c \in DOMAIN ToLower THEN ToLower[c] ELSE c

Digit == <<"0", "1", "2", "3", "4", "5", "6", "7", "8", "9">>
DigitSet == {Digit[i] : i \in 1..10}

\* str.isdigit() of one code point
IsDigit(c) == c \in DigitSet

\* the regular expression class [a-zA-Z0-9]
IsAlnum(c) == c \in DOMAIN ToLower \/ c \in {ToLower[u] : u \in DOMAIN ToLower} \/ IsDigit(c)

\* str.isspace() of one code point
IsSpace(c) == c \in {" ", "\t", "\n", "\r"}

RECURSIVE DecimalOf(_)
\* str(n) for a natural number n
DecimalOf(n) ==
    IF n < 10 THEN <<Digit[n + 1]>>
              ELSE DecimalOf(n \div 10) \o <<Digit[(n % 10) + 1]>>

SMALL_CAPS_MAP ==
    "a" :> "sc_a" @@ "b" :> "sc_b" @@ "c" :> "sc_c" @@ "d" :> "sc_d" @@
    "e" :> "sc_e" @@ "f" :> "sc_f" @@ "g" :> "sc_g" @@ "h" :> "sc_h" @@
    "i" :> "sc_i" @@ "j" :> "sc_j" @@ "k" :> "sc_k" @@ "l" :> "sc_l" @@
    "m" :> "sc_m" @@ "n" :> "sc_n" @@ "o" :> "sc_o" @@ "p" :> "sc_p" @@
    "q" :> "sc_q" @@ "r" :> "sc_r" @@ "s" :> "s" @@ "t" :> "sc_t" @@
    "u" :> "sc_u" @@ "v" :> "sc_v" @@ "w" :> "sc_w" @@ "x" :> "x" @@
    "y" :> "sc_y" @@ "z" :> "sc_z"

REVERSE_SMALL_CAPS_MAP ==
    "sc_a" :> "a" @@ "sc_b" :> "b" @@ "sc_c" :> "c" @@ "sc_d" :> "d" @@
    "sc_e" :> "e" @@ "sc_f" :> "f" @@ "sc_g" :> "g" @@ "sc_h" :> "h" @@
    "sc_i" :> "i" @@ "sc_j" :> "j" @@ "sc_k" :> "k" @@ "sc_l" :> "l" @@
    "sc_m" :> "m" @@ "sc_n" :> "n" @@ "sc_o" :> "o" @@ "sc_p" :> "p" @@
    "sc_q" :> "q" @@ "sc_r" :> "r" @@ "s" :> "s" @@ "sc_t" :> "t" @@
    "sc_u" :> "u" @@ "sc_v" :> "v" @@ "sc_w" :> "w" @@ "x" :> "x" @@
    "sc_y" :> "y" @@ "sc_z" :> "z"

(***************************************************************************)
(* String operations of the Python runtime, as the source uses them.       *)
(***************************************************************************)
\* s[i:] and s[:i] with 1-based positions
From(s, i) == SubSeq(s, i, Len(s))
Upto(s, i) == SubSeq(s, 1, i)

\* s.startswith(p, at position i)
StartsAt(s, i, p) ==
    /\ i >= 1
    /\ i + Len(p) - 1 <= Len(s)
    /\ SubSeq(s, i, i + Len(p) - 1) = p

\* s.find(p): the first position where p occurs in s, 0 when it does not
Find(s, p) ==
    LET hits == {i \in 1..(Len(s) + 1) : StartsAt(s, i, p)}
    IN  IF hits = {} THEN 0 ELSE CHOOSE i \in hits : \A j \in hits : i <= j

\* p in s
Contains(s, p) == Find(s, p) # 0

\* s.replace(old, new, 1)
ReplaceFirst(s, old, new) ==
    LET i == Find(s, old)
    IN  IF i = 0 THEN s
        ELSE Upto(s, i - 1) \o new \o From(s, i + Len(old))

RECURSIVE ReplaceAll(_, _, _)
\* s.replace(old, new) for a non-empty old: every occurrence, left to right
ReplaceAll(s, old, new) ==
    LET i == Find(s, old)
    IN  IF i = 0 \/ Len(old) = 0 THEN s
        ELSE Upto(s, i - 1) \o new \o ReplaceAll(From(s, i + Len(old)), old, new)

\* the position of the first c in s at or after position i, 0 when there is none
NextOf(s, i, c) ==
    LET hits == {j \in i..Len(s) : s[j] = c}
    IN  IF hits = {} THEN 0 ELSE CHOOSE j \in hits : \A k \in hits : j <= k

(***************************************************************************)
(* The transcoder.                                                         *)
(***************************************************************************)
\* the end of the match of placeholder_pattern that starts at position i of
\* text, 0 when the pattern does not match there
MatchEnd(text, i) ==
    CASE text[i] = "%" -> NextOf(text, i + 1, "%")
      [] text[i] = "{" -> NextOf(text, i + 1, "}")
      [] text[i] = "&" -> IF i < Len(text) /\ IsAlnum(text[i + 1]) THEN i + 1 ELSE 0
      [] OTHER -> 0

RECURSIVE FindIterFrom(_, _)
\* re.finditer(placeholder_pattern, text) from position i on: the spans
\* <<first, last>> of the non-overlapping matches, leftmost first
FindIterFrom(text, i) ==
    IF i > Len(text) THEN <<>>
    ELSE LET e == MatchEnd(text, i)
         IN  IF e = 0 THEN FindIterFrom(text, i + 1)
             ELSE <<(<<i, e>>)>> \o FindIterFrom(text, e + 1)

FindIter(text) == FindIterFrom(text, 1)

\* f"__PLACEHOLDER_{k}__"
Sentinel(k) ==
    <<"_", "_", "P", "L", "A", "C", "E", "H", "O", "L", "D", "E", "R", "_">>
        \o DecimalOf(k) \o <<"_", "_">>

RECURSIVE Extract(_, _, _, _)
\* the extraction loop: temp_text after the matches k.. of spans have each been
\* replaced, first occurrence only, by their sentinel
Extract(text, spans, k, temp) ==
    IF k > Len(spans) THEN temp
    ELSE Extract(text, spans, k + 1,
                 ReplaceFirst(temp, SubSeq(text, spans[k][1], spans[k][2]), Sentinel(k - 1)))

RECURSIVE Restore(_, _, _, _)
\* the restore loop: every occurrence of sentinel k - 1 replaced by placeholder k
Restore(text, spans, k, result) ==
    IF k > Len(spans) THEN result
    ELSE Restore(text, spans, k + 1,
                 ReplaceAll(result, Sentinel(k - 1), SubSeq(text, spans[k][1], spans[k][2])))

\* SMALL_CAPS_MAP.get(char.lower(), char)
EncodeChar(c) ==
    IF Lower(c) \in DOMAIN SMALL_CAPS_MAP THEN SMALL_CAPS_MAP[Lower(c)] ELSE c

\* a decoding that maps nothing back
DecodeCharKeeps(c) == c

\* REVERSE_SMALL_CAPS_MAP.get(char, char)
DecodeChar(c) ==
    IF c \in DOMAIN REVERSE_SMALL_CAPS_MAP THEN REVERSE_SMALL_CAPS_MAP[c] ELSE c

to_small_caps(v) ==
    IF ~IsStr(v) THEN v
    ELSE LET text == v.s
             spans == FindIter(text)
             temp_text == Extract(text, spans, 1, text)
             converted == [i \in 1..Len(temp_text) |-> EncodeChar(temp_text[i])]
         IN  Str(Restore(text, spans, 1, converted))

\* a decoding that protects no placeholder
from_small_caps_unprotected(v) ==
    IF ~IsStr(v) THEN v
    ELSE Str([i \in 1..Len(v.s) |-> DecodeChar(v.s[i])])

from_small_caps(v) ==
    IF ~IsStr(v) THEN v
    ELSE LET text == v.s
             spans == FindIter(text)
             temp_text == Extract(text, spans, 1, text)
             converted == [i \in 1..Len(temp_text) |-> DecodeChar(temp_text[i])]
         IN  Str(Restore(text, spans, 1, converted))

(***************************************************************************)
(* Mappings.  A Python dict is the sequence of its entries [k, v] in       *)
(* insertion order, keys distinct; a nested mapping is the value Map(d).   *)
(***************************************************************************)
Map(d) == [t |-> "map", d |-> d]
IsMap(v) == v.t = "map"
Error == [t |-> "error"]

\* the position of key k in dict d, 0 when d has no such key
KeyPos(d, k) ==
    LET hits == {i \in 1..Len(d) : d[i].k = k}
    IN  IF hits = {} THEN 0 ELSE CHOOSE i \in hits : TRUE

\* d[k] = v: an existing key keeps its place, a new key goes last
DictSet(d, k, v) ==
    LET i == KeyPos(d, k)
    IN  IF i = 0 THEN Append(d, [k |-> k, v |-> v])
        ELSE [d EXCEPT ![i] = [k |-> k, v |-> v]]

RECURSIVE DictUpdate(_, _)
\* d.update(e)
DictUpdate(d, e) ==
    IF e = <<>> THEN d
    ELSE DictUpdate(DictSet(d, Head(e).k, Head(e).v), Tail(e))

RECURSIVE DictEq(_, _)
\* a == b for two values: dicts compare by keys and values, whatever the order
DictEq(a, b) ==
    IF a.t = "map" /\ b.t = "map"
    THEN /\ Len(a.d) = Len(b.d)
         /\ \A i \in 1..Len(a.d) :
                LET j == KeyPos(b.d, a.d[i].k)
                IN  j # 0 /\ DictEq(a.d[i].v, b.d[j].v)
    ELSE a = b

RECURSIVE Split(_, _)
\* s.split(sep) for a one-character separator
Split(s, sep) ==
    LET i == NextOf(s, 1, sep)
    IN  IF i = 0 THEN <<s>>
        ELSE <<Upto(s, i - 1)>> \o Split(From(s, i + 1), sep)

RECURSIVE flatten_yaml(_, _)
\* flatten_yaml(d, prefix): the flat dict of the leaves of dict d
flatten_yaml(d, prefix) ==
    IF d = <<>> THEN <<>>
    ELSE LET k == Head(d).k
             v == Head(d).v
             new_key == IF prefix # <<>> THEN prefix \o <<".">> \o k ELSE k
             first == IF IsMap(v) THEN flatten_yaml(v.d, new_key)
                                  ELSE <<[k |-> new_key, v |-> v]>>
         IN  DictUpdate(first, flatten_yaml(Tail(d), prefix))

RECURSIVE SetPath(_, _, _)
\* the walk of unflatten_yaml for one entry: node with the value v assigned at
\* the path keys, intermediate mappings created by setdefault; Error when the
\* walk meets a value that is no mapping (the code raises there)
SetPath(node, keys, v) ==
    IF ~IsMap(node) THEN Error
    ELSE IF Len(keys) = 1 THEN Map(DictSet(node.d, keys[1], v))
    ELSE LET i == KeyPos(node.d, keys[1])
             ref == IF i = 0 THEN Map(<<>>) ELSE node.d[i].v
             sub == SetPath(ref, Tail(keys), v)
         IN  IF sub = Error THEN Error ELSE Map(DictSet(node.d, keys[1], sub))

RECURSIVE UnflattenFrom(_, _)
UnflattenFrom(d, result) ==
    IF d = <<>> \/ result = Error THEN result
    ELSE UnflattenFrom(Tail(d), SetPath(result, Split(Head(d).k, "."), Head(d).v))

\* unflatten_yaml(d): the nested mapping, or Error when the code raises
unflatten_yaml(d) == UnflattenFrom(d, Map(<<>>))

(***************************************************************************)
(* The translation pipeline: pure parts.                                   *)
(***************************************************************************)
RECURSIVE LStrip(_)
LStrip(s) == IF s # <<>> /\ IsSpace(Head(s)) THEN LStrip(Tail(s)) ELSE s

RECURSIVE RStrip(_)
RStrip(s) == IF s # <<>> /\ IsSpace(s[Len(s)]) THEN RStrip(Upto(s, Len(s) - 1)) ELSE s

\* s.strip()
Strip(s) == RStrip(LStrip(s))

\* s.lower()
LowerStr(s) == [i \in 1..Len(s) |-> Lower(s[i])]

\* a classification that compares with the literals without lowering the case
TranslatableCaseSensitive(val) ==
    /\ IsStr(val)
    /\ val.s \notin {<<"t", "r", "u", "e">>, <<"f", "a", "l", "s", "e">>}
    /\ Strip(val.s) # <<>>

\* isinstance(val, str) and val.lower() not in ("true", "false") and val.strip()
Translatable(val) ==
    /\ IsStr(val)
    /\ LowerStr(val.s) \notin {<<"t", "r", "u", "e">>, <<"f", "a", "l", "s", "e">>}
    /\ Strip(val.s) # <<>>

\* the classification loop: the queued (key, value) entries, in flatten order
Queued(entries) == SelectSeq(entries, LAMBDA e : Translatable(e.v))

\* the classification loop: the Output Map it leaves, the pass-through leaves
PassThrough(entries) == SelectSeq(entries, LAMBDA e : ~Translatable(e.v))

RECURSIVE ChunkedFullOnly(_, _)
\* a planner that keeps the full slices only
ChunkedFullOnly(items, n) ==
    IF n < 1 \/ Len(items) < n THEN <<>>
    ELSE <<Upto(items, n)>> \o ChunkedFullOnly(From(items, n + 1), n)

\* list(chunked(items, n)) raises: islice refuses a negative n with ValueError
ChunkedRaises(items, n) == n < 0

RECURSIVE Chunked(_, _)
\* list(chunked(items, n)): slices of n items, the last one possibly shorter;
\* no slice at all when n is 0
Chunked(items, n) ==
    IF items = <<>> \/ n < 1 THEN <<>>
    ELSE IF Len(items) <= n THEN <<items>>
    ELSE <<Upto(items, n)>> \o Chunked(From(items, n + 1), n)

\* response_text.splitlines(), for lines ended by "\n"
SplitLines(s) ==
    IF s = <<>> THEN <<>>
    ELSE IF s[Len(s)] = "\n" THEN Split(Upto(s, Len(s) - 1), "\n")
    ELSE Split(s, "\n")

\* line.startswith(("1.", "2.", "3.", "4.", "5."))
StartsWithDigitDot(line) ==
    \E d \in {"1", "2", "3", "4", "5"} : StartsAt(line, 1, <<d, ".">>)

\* one pass of the parsing loop: what the line adds to translated_batch
ParseLine(line) ==
    IF Contains(line, <<".", " ">>) /\ IsDigit(line[1])
    THEN <<From(line, Find(line, <<".", " ">>) + 2)>>
    ELSE IF Strip(line) # <<>> /\ ~StartsWithDigitDot(line)
    THEN <<Strip(line)>>
    ELSE <<>>

RECURSIVE ParseLines(_)
ParseLines(lines) ==
    IF lines = <<>> THEN <<>> ELSE ParseLine(Head(lines)) \o ParseLines(Tail(lines))

\* translated_batch for the response content
ParseResponse(content) == ParseLines(SplitLines(Strip(content)))

RECURSIVE ApplyFromSkipMissing(_, _, _, _)
\* an apply loop that leaves an item without a translation out of the map
ApplyFromSkipMissing(out, chunk, translated_batch, i) ==
    IF i > Len(chunk) THEN out
    ELSE ApplyFromSkipMissing(
           IF i <= Len(translated_batch)
           THEN DictSet(out, chunk[i].k, Str(translated_batch[i]))
           ELSE out,
           chunk, translated_batch, i + 1)

RECURSIVE ApplyFrom(_, _, _, _)
\* the apply loop from item i on: item i gets translated_batch[i] when there is
\* one, its original value when there is none
ApplyFrom(out, chunk, translated_batch, i) ==
    IF i > Len(chunk) THEN out
    ELSE ApplyFrom(
           DictSet(out, chunk[i].k,
                   IF i <= Len(translated_batch) THEN Str(translated_batch[i])
                                                ELSE chunk[i].v),
           chunk, translated_batch, i + 1)

\* an apply loop that starts from an empty map for every batch
ApplyBatchFresh(out, chunk, translated_batch) == ApplyFrom(<<>>, chunk, translated_batch, 1)

ApplyBatch(out, chunk, translated_batch) == ApplyFrom(out, chunk, translated_batch, 1)

\* the keys the apply loop reports as missing, in order
MissingKeys(chunk, translated_batch) ==
    [j \in 1..(IF Len(chunk) > Len(translated_batch)
                 THEN Len(chunk) - Len(translated_batch) ELSE 0)
        |-> chunk[Len(translated_batch) + j].k]

\* a backoff that grows by a constant step
BackoffLinear(a) == 2 * a

\* time.sleep(2 ** attempt)
Backoff(a) == 2 ^ a

\* a retry test that lets the last attempt sleep and loop once more
MayRetryAlways(a, max_retries) == a < max_retries

\* attempt < self.settings['max_retries'] - 1
MayRetry(a, max_retries) == a < max_retries - 1

(***************************************************************************)
(* Telemetry.  A timestamp not yet taken (None) is written 0; the clock    *)
(* never reads 0.                                                          *)
(***************************************************************************)
NewRecord ==
    [started |-> 0, finished |-> 0, api_start |-> 0, api_end |-> 0,
     file_start |-> 0, file_end |-> 0, status |-> "pending"]

\* BatchTelemetry(total_batches)
BatchTelemetry(total_batches) == [i \in 1..total_batches |-> NewRecord]

start_batch(t, i, time) == [t EXCEPT ![i].started = time, ![i].status = "running"]
start_api(t, i, time) == [t EXCEPT ![i].api_start = time]
end_api(t, i, time) == [t EXCEPT ![i].api_end = time]
start_file_ops(t, i, time) == [t EXCEPT ![i].file_start = time]
end_file_ops(t, i, time) == [t EXCEPT ![i].file_end = time]
\* a finish that puts the record back to pending
finish_batch_resets(t, i, time) == [t EXCEPT ![i].finished = time, ![i].status = "pending"]

finish_batch(t, i, time) == [t EXCEPT ![i].finished = time, ![i].status = "completed"]

(***************************************************************************)
(* The translation pipeline: one run of Translator.translate_yaml_file.    *)
(***************************************************************************)
MaxBatchSize == 2
MaxRetries == 3

\* a document with translatable and pass-through leaves, nested
DocMain ==
    << [k |-> <<"g">>, v |-> Str(<<"h", "i">>)],
       [k |-> <<"n">>, v |-> IntVal(5)],
       [k |-> <<"s">>,
        v |-> Map(<< [k |-> <<"t">>, v |-> Str(<<"y", "o">>)],
                     [k |-> <<"f">>, v |-> Str(<<"T", "r", "u", "e">>)],
                     [k |-> <<"w">>, v |-> Str(<<" ">>)] >>)],
       [k |-> <<"b">>, v |-> Str(<<"o", "k">>)] >>

\* documents with a key that contains the separator
DocDotted ==
    << [k |-> <<"a", ".", "b">>, v |-> Str(<<"h", "i">>)],
       [k |-> <<"a">>, v |-> Str(<<"y", "o">>)] >>

DocDottedUnder ==
    << [k |-> <<"a">>, v |-> Str(<<"y", "o">>)],
       [k |-> <<"a", ".", "b">>, v |-> Str(<<"h", "i">>)] >>

\* a document with an empty key, whose leaves flatten to the keys of DocDotted
DocEmptyKey ==
    << [k |-> <<>>,
        v |-> Map(<< [k |-> <<"a">>,
                      v |-> Map(<< [k |-> <<"b">>, v |-> Str(<<"h", "i">>)] >>)] >>)],
       [k |-> <<"a">>, v |-> Str(<<"y", "o">>)] >>

\* a document of scalars of every kind around one translatable leaf
DocScalars ==
    << [k |-> <<"e">>, v |-> Str(<<>>)],
       [k |-> <<"f">>, v |-> Str(<<"f", "A", "l", "s", "e">>)],
       [k |-> <<"z">>, v |-> NullVal],
       [k |-> <<"x">>, v |-> Str(<<"n", "o">>)],
       [k |-> <<"y">>, v |-> BoolVal(TRUE)] >>

\* a document with nothing to translate
DocNumbers ==
    << [k |-> <<"n">>, v |-> IntVal(5)],
       [k |-> <<"l">>, v |-> ListVal(<<Str(<<"h", "i">>)>>)] >>

RunDocs == {DocMain, DocDotted, DocDottedUnder, DocEmptyKey, DocScalars, DocNumbers}

\* what open() and yaml.safe_load yield: a failure to open, a failure to
\* parse, a mapping, or no mapping at all (an empty file loads as None)
Sources ==
    {[kind |-> "unreadable"], [kind |-> "malformed"], [kind |-> "doc", d |-> NullVal]}
        \cup {[kind |-> "doc", d |-> Map(d)] : d \in RunDocs}

Pending == [t |-> "pending"]
\* the run ends with the exception e, which nothing caught
Raised(e) == [t |-> "raised", e |-> e]
OutputFile == [t |-> "output_file"]
Partial == [t |-> "partial"]

\* the text the service returns for one source text
Translation(text) == <<"X">> \o text

\* f"{i}. {text}"
NumberedLine(i, text) == DecimalOf(i) \o <<".", " ">> \o text

RECURSIVE JoinLines(_)
\* "\n".join(lines)
JoinLines(lines) ==
    IF lines = <<>> THEN <<>>
    ELSE IF Len(lines) = 1 THEN lines[1]
    ELSE lines[1] \o <<"\n">> \o JoinLines(Tail(lines))

\* the response contents the service may return for a batch: the first p items
\* as numbered lines (p = n: all of them), the numbered lines in reverse
\* order, and the translations without numbers
Responses(chunk) ==
    LET n == Len(chunk)
        line(i) == NumberedLine(i, Translation(chunk[i].v.s))
    IN  {JoinLines([i \in 1..p |-> line(i)]) : p \in 0..n}
            \cup {JoinLines([i \in 1..n |-> line(n + 1 - i)])}
            \cup {JoinLines([i \in 1..n |-> Translation(chunk[i].v.s)])}

InitRun ==
    /\ pc = "start"
    /\ settings \in [batch_size : (-1)..MaxBatchSize, max_retries : (-1)..MaxRetries]
    /\ source \in Sources
    /\ output = <<>>
    /\ translatable_items = <<>>
    /\ chunks = <<>>
    /\ batch_num = 0
    /\ attempt = 0
    /\ calls = 0
    /\ resp = None
    /\ delays = <<>>
    /\ batchOk = <<>>
    /\ warned = <<>>
    /\ translated_count = 0
    /\ telemetry = <<>>
    /\ now = 1
    /\ total_start = 0
    /\ disk = None
    /\ backup = None
    /\ history = None
    /\ returned = Pending

IdleRun ==
    /\ pc = "idle"
    /\ settings = [batch_size |-> 0, max_retries |-> 0]
    /\ source = [kind |-> "unreadable"]
    /\ output = <<>>
    /\ translatable_items = <<>>
    /\ chunks = <<>>
    /\ batch_num = 0
    /\ attempt = 0
    /\ calls = 0
    /\ resp = None
    /\ delays = <<>>
    /\ batchOk = <<>>
    /\ warned = <<>>
    /\ translated_count = 0
    /\ telemetry = <<>>
    /\ now = 1
    /\ total_start = 0
    /\ disk = None
    /\ backup = None
    /\ history = None
    /\ returned = Pending

\* the batch in hand
Chunk == chunks[batch_num]

\* a failed load that leaves an empty document in the output file
LoadFailsWritesEmpty ==
    /\ pc = "start"
    /\ source.kind \in {"unreadable", "malformed"}
    /\ total_start' = now
    /\ backup' = IF source.kind = "unreadable" THEN None ELSE source
    /\ disk' = Map(<<>>)
    /\ returned' = None
    /\ pc' = "done"
    /\ UNCHANGED <<settings, source, output, translatable_items, chunks, batch_num,
                   attempt, calls, resp, delays, batchOk, warned, translated_count,
                   telemetry, now, history>>
    /\ UNCHANGED otherThanRun

\* the input cannot be opened or parsed: the run returns None
LoadFails ==
    /\ pc = "start"
    /\ source.kind \in {"unreadable", "malformed"}
    /\ total_start' = now
    /\ backup' = IF source.kind = "unreadable" THEN None ELSE source
    /\ returned' = None
    /\ pc' = "done"
    /\ UNCHANGED <<settings, source, output, translatable_items, chunks, batch_num,
                   attempt, calls, resp, delays, batchOk, warned, translated_count,
                   telemetry, now, disk, history>>
    /\ UNCHANGED otherThanRun

\* the input loads as something that is no mapping: flatten_yaml raises
LoadRaises ==
    /\ pc = "start"
    /\ source.kind = "doc"
    /\ ~IsMap(source.d)
    /\ total_start' = now
    /\ backup' = source
    /\ returned' = Raised("AttributeError")
    /\ pc' = "raised"
    /\ UNCHANGED <<settings, source, output, translatable_items, chunks, batch_num,
                   attempt, calls, resp, delays, batchOk, warned, translated_count,
                   telemetry, now, disk, history>>
    /\ UNCHANGED otherThanRun

\* loading, queuing and batching: every leaf is classified, the pass-through
\* leaves go to the Output Map, the others are queued and cut into batches;
\* a negative batch size makes list(chunked(...)) raise, which nothing catches
LoadQueues ==
    /\ pc = "start"
    /\ source.kind = "doc"
    /\ IsMap(source.d)
    /\ LET entries == flatten_yaml(source.d.d, <<>>)
           items == Queued(entries)
           planned == Chunked(items, settings.batch_size)
       IN  /\ output' = PassThrough(entries)
           /\ translatable_items' = items
           /\ IF items = <<>>
              THEN /\ returned' = None
                   /\ pc' = "done"
                   /\ UNCHANGED <<chunks, telemetry>>
              ELSE IF ChunkedRaises(items, settings.batch_size)
              THEN /\ returned' = Raised("ValueError")
                   /\ pc' = "raised"
                   /\ UNCHANGED <<chunks, telemetry>>
              ELSE /\ chunks' = planned
                   /\ telemetry' = BatchTelemetry(Len(planned))
                   /\ pc' = "loop"
                   /\ UNCHANGED returned
    /\ total_start' = now
    /\ backup' = source
    /\ UNCHANGED <<settings, source, batch_num, attempt, calls, resp, delays, batchOk,
                   warned, translated_count, now, disk, history>>
    /\ UNCHANGED otherThanRun

\* the loop takes the next batch and process_batch is about to call the API
StartBatch ==
    /\ pc = "loop"
    /\ batch_num < Len(chunks)
    /\ batch_num' = batch_num + 1
    /\ telemetry' = start_api(start_batch(telemetry, batch_num', now), batch_num', now)
    /\ attempt' = 0
    /\ calls' = 0
    /\ resp' = None
    /\ delays' = <<>>
    /\ pc' = "api"
    /\ UNCHANGED <<settings, source, output, translatable_items, chunks, batchOk,
                   warned, translated_count, now, total_start, disk, backup,
                   history, returned>>
    /\ UNCHANGED otherThanRun

\* a return of the API call after which only the items that got a parsed
\* translation are counted
ApiReturnsCountsParsed ==
    /\ pc = "api"
    /\ attempt < settings.max_retries
    /\ \E content \in Responses(Chunk) :
           LET translated_batch == ParseResponse(content)
           IN  /\ resp' = content
               /\ output' = ApplyBatch(output, Chunk, translated_batch)
               /\ warned' = warned \o MissingKeys(Chunk, translated_batch)
               /\ translated_count' = translated_count
                      + Len(Chunk) - Len(MissingKeys(Chunk, translated_batch))
    /\ calls' = calls + 1
    /\ telemetry' = start_file_ops(end_api(telemetry, batch_num, now), batch_num, now)
    /\ batchOk' = Append(batchOk, TRUE)
    /\ pc' = "save"
    /\ UNCHANGED <<settings, source, translatable_items, chunks, batch_num, attempt,
                   delays, now, total_start, disk, backup, history, returned>>
    /\ UNCHANGED otherThanRun

\* an API call returns: the response is parsed and applied, process_batch
\* returns True, and the loop is about to save the progress
ApiReturns ==
    /\ pc = "api"
    /\ attempt < settings.max_retries
    /\ \E content \in Responses(Chunk) :
           LET translated_batch == ParseResponse(content)
           IN  /\ resp' = content
               /\ output' = ApplyBatch(output, Chunk, translated_batch)
               /\ warned' = warned \o MissingKeys(Chunk, translated_batch)
    /\ calls' = calls + 1
    /\ telemetry' = start_file_ops(end_api(telemetry, batch_num, now), batch_num, now)
    /\ batchOk' = Append(batchOk, TRUE)
    /\ translated_count' = translated_count + Len(Chunk)
    /\ pc' = "save"
    /\ UNCHANGED <<settings, source, translatable_items, chunks, batch_num, attempt,
                   delays, now, total_start, disk, backup, history, returned>>
    /\ UNCHANGED otherThanRun

\* an API call fails and another attempt follows, after the backoff sleep
ApiFailsRetry ==
    /\ pc = "api"
    /\ attempt < settings.max_retries
    /\ MayRetry(attempt, settings.max_retries)
    /\ calls' = calls + 1
    /\ delays' = Append(delays, Backoff(attempt))
    /\ now' = now + Backoff(attempt)
    /\ attempt' = attempt + 1
    /\ UNCHANGED <<pc, settings, source, output, translatable_items, chunks,
                   batch_num, resp, batchOk, warned, translated_count, telemetry,
                   total_start, disk, backup, history, returned>>
    /\ UNCHANGED otherThanRun

\* a last failure after which the loop saves the progress all the same
ApiFailsLastSaves ==
    /\ pc = "api"
    /\ attempt < settings.max_retries
    /\ ~MayRetry(attempt, settings.max_retries)
    /\ calls' = calls + 1
    /\ batchOk' = Append(batchOk, FALSE)
    /\ pc' = "save"
    /\ UNCHANGED <<settings, source, output, translatable_items, chunks, batch_num,
                   attempt, resp, delays, warned, translated_count, telemetry, now,
                   total_start, disk, backup, history, returned>>
    /\ UNCHANGED otherThanRun

\* the last allowed API call fails: the error is raised again, process_batch
\* catches it and returns False, and the loop skips the batch
ApiFailsLast ==
    /\ pc = "api"
    /\ attempt < settings.max_retries
    /\ ~MayRetry(attempt, settings.max_retries)
    /\ calls' = calls + 1
    /\ batchOk' = Append(batchOk, FALSE)
    /\ pc' = "loop"
    /\ UNCHANGED <<settings, source, output, translatable_items, chunks, batch_num,
                   attempt, resp, delays, warned, translated_count, telemetry, now,
                   total_start, disk, backup, history, returned>>
    /\ UNCHANGED otherThanRun

\* a retry loop that makes one call whatever max_retries is
ApiCalledOnceAnyway ==
    /\ pc = "api"
    /\ ~(attempt < settings.max_retries)
    /\ calls' = calls + 1
    /\ telemetry' = end_api(telemetry, batch_num, now)
    /\ batchOk' = Append(batchOk, FALSE)
    /\ pc' = "loop"
    /\ UNCHANGED <<settings, source, output, translatable_items, chunks, batch_num,
                   attempt, resp, delays, warned, translated_count, now,
                   total_start, disk, backup, history, returned>>
    /\ UNCHANGED otherThanRun

\* the retry loop ends without a response: reading resp raises, process_batch
\* catches it and returns False
ApiNotCalled ==
    /\ pc = "api"
    /\ ~(attempt < settings.max_retries)
    /\ telemetry' = end_api(telemetry, batch_num, now)
    /\ batchOk' = Append(batchOk, FALSE)
    /\ pc' = "loop"
    /\ UNCHANGED <<settings, source, output, translatable_items, chunks, batch_num,
                   attempt, calls, resp, delays, warned, translated_count, now,
                   total_start, disk, backup, history, returned>>
    /\ UNCHANGED otherThanRun

\* save_progress writes the unflattened Output Map over the output file
SaveWrites ==
    /\ pc = "save"
    /\ unflatten_yaml(output) # Error
    /\ disk' = unflatten_yaml(output)
    /\ telemetry' = finish_batch(end_file_ops(telemetry, batch_num, now), batch_num, now)
    /\ pc' = "loop"
    /\ UNCHANGED <<settings, source, output, translatable_items, chunks, batch_num,
                   attempt, calls, resp, delays, batchOk, warned, translated_count, now,
                   total_start, backup, history, returned>>
    /\ UNCHANGED otherThanRun

\* unflatten_yaml raises inside save_progress: nothing catches it
SaveUnflattenRaises ==
    /\ pc = "save"
    /\ unflatten_yaml(output) = Error
    /\ returned' = Raised("TypeError")
    /\ pc' = "raised"
    /\ UNCHANGED <<settings, source, output, translatable_items, chunks, batch_num,
                   attempt, calls, resp, delays, batchOk, warned, translated_count,
                   telemetry, now, total_start, disk, backup, history>>
    /\ UNCHANGED otherThanRun

\* opening or writing the output file fails inside save_progress: nothing
\* catches it; the file is as it was, or holds a part of the document
SaveWriteFails ==
    /\ pc = "save"
    /\ unflatten_yaml(output) # Error
    /\ disk' \in {disk, Partial}
    /\ returned' = Raised("OSError")
    /\ pc' = "raised"
    /\ UNCHANGED <<settings, source, output, translatable_items, chunks, batch_num,
                   attempt, calls, resp, delays, batchOk, warned, translated_count,
                   telemetry, now, total_start, backup, history>>
    /\ UNCHANGED otherThanRun

\* a history entry that calls a run completed only when every item was translated
HistoryEntryAllOrNothing ==
    [items_translated |-> translated_count,
     total_items |-> Len(translatable_items),
     status |-> IF translated_count = Len(translatable_items) THEN "completed" ELSE "failed"]

\* the history entry of the run
HistoryEntry ==
    [items_translated |-> translated_count,
     total_items |-> Len(translatable_items),
     status |-> IF translated_count > 0 THEN "completed" ELSE "failed"]

\* after the last batch no time has passed since the start: the summary's
\* division by total_time raises, and nothing catches it
SummaryRaises ==
    /\ pc = "loop"
    /\ batch_num = Len(chunks)
    /\ now - total_start = 0
    /\ returned' = Raised("ZeroDivisionError")
    /\ pc' = "raised"
    /\ UNCHANGED <<settings, source, output, translatable_items, chunks, batch_num,
                   attempt, calls, resp, delays, batchOk, warned, translated_count,
                   telemetry, now, total_start, disk, backup, history>>
    /\ UNCHANGED otherThanRun

\* an end of the run that returns None when nothing was translated
FinishNoneOnFailure ==
    /\ pc = "loop"
    /\ batch_num = Len(chunks)
    /\ \E elapsed \in 0..1 :
           /\ now' = now + elapsed
           /\ now' - total_start # 0
    /\ history' \in {HistoryEntry, None}
    /\ returned' = IF translated_count > 0 THEN OutputFile ELSE None
    /\ pc' = "done"
    /\ UNCHANGED <<settings, source, output, translatable_items, chunks, batch_num,
                   attempt, calls, resp, delays, batchOk, warned, translated_count,
                   telemetry, total_start, disk, backup>>
    /\ UNCHANGED otherThanRun

\* after the last batch: the summary is printed, the history entry saved (a
\* failure to save it is ignored), and the output file name returned
Finish ==
    /\ pc = "loop"
    /\ batch_num = Len(chunks)
    /\ \E elapsed \in 0..1 :
           /\ now' = now + elapsed
           /\ now' - total_start # 0
    /\ history' \in {HistoryEntry, None}
    /\ returned' = OutputFile
    /\ pc' = "done"
    /\ UNCHANGED <<settings, source, output, translatable_items, chunks, batch_num,
                   attempt, calls, resp, delays, batchOk, warned, translated_count,
                   telemetry, total_start, disk, backup>>
    /\ UNCHANGED otherThanRun

Next ==
    \/ LoadFails
    \/ LoadRaises
    \/ LoadQueues
    \/ StartBatch
    \/ ApiReturns
    \/ ApiFailsRetry
    \/ ApiFailsLast
    \/ ApiNotCalled
    \/ SaveWrites
    \/ SaveUnflattenRaises
    \/ SaveWriteFails
    \/ SummaryRaises
    \/ Finish

(***************************************************************************)
(* The transcoder under test: a value is encoded, and the result decoded,  *)
(* as the tag-preservation test drives the two functions.                  *)
(***************************************************************************)
MaxLen == 3

CapsAlphabet == {"h", "B", "s", " ", "%", "{", "}", "&", "<", ">", "sc_h"}

RECURSIVE TextsUpTo(_)
\* every text over CapsAlphabet of at most n code points
TextsUpTo(n) ==
    IF n = 0 THEN {<<>>}
    ELSE LET shorter == TextsUpTo(n - 1)
         IN  shorter \cup {Append(t, c) : t \in {u \in shorter : Len(u) = n - 1}, c \in CapsAlphabet}

\* cases of the tag-preservation test, and a text that already holds a sentinel
ExampleTexts ==
    { <<"%", "p", "l", "a", "y", "e", "r", "%">>,
      <<"{", "w", "o", "r", "l", "d", "}">>,
      <<"&", "c">>,
      <<"h", "e", "l", "l", "o", " ", "w", "o", "r", "l", "d">>,
      <<"<", "5", ">", "h", "e", "l", "l", "o">>,
      <<"<", "s", "h", "i", "f", "t", ":", "-", "8", ">", "h", "e", "l", "l", "o">>,
      <<"<", "#", "b", "8", "1", "8", "3", "8", ">", "e", "r", "o_dacute">>,
      <<"<", "b", "o", "l", "d", ">", "t", "e", "x", "t", "<", "/", "b", "o", "l", "d", ">">>,
      <<"h", "e", "l", "l", "o", "\\", "n", "w", "o", "r", "l", "d">>,
      <<"H", "e", "L", "L", "o", " ", "o_dacute", " ", "1", "!">>,
      <<"3", "0", "0", " ", "K_sign">>,
      <<"sc_h", "%", "sc_p", "%", "{", "sc_h", "}", "&", "sc_c", "&", "c", "sc_h">>,
      Sentinel(0) \o <<"&", "c">> }

CapsInputs ==
    {Str(t) : t \in TextsUpTo(MaxLen) \cup ExampleTexts} \cup {IntVal(5), BoolVal(TRUE), NullVal}

InitCaps ==
    /\ capsPc = "input"
    /\ capsIn \in CapsInputs
    /\ capsOut = None
    /\ capsBack = None

\* result = to_small_caps(input_text)
CapsEncode ==
    /\ capsPc = "input"
    /\ capsOut' = to_small_caps(capsIn)
    /\ capsPc' = "encoded"
    /\ UNCHANGED <<capsIn, capsBack>>
    /\ UNCHANGED otherThanCaps

\* restored = from_small_caps(result)
CapsDecode ==
    /\ capsPc = "encoded"
    /\ capsBack' = from_small_caps(capsOut)
    /\ capsPc' = "decoded"
    /\ UNCHANGED <<capsIn, capsOut>>
    /\ UNCHANGED otherThanCaps

\* converted = from_small_caps(value), as the reverser applies it to a value
\* of the file
CapsReverse ==
    /\ capsPc = "input"
    /\ capsBack' = from_small_caps(capsIn)
    /\ capsPc' = "reversed"
    /\ UNCHANGED <<capsIn, capsOut>>
    /\ UNCHANGED otherThanCaps

NextCaps == CapsEncode \/ CapsDecode \/ CapsReverse

(***************************************************************************)
(* The flattener under test: a nested mapping is flattened, and the flat   *)
(* dict unflattened.                                                       *)
(***************************************************************************)
MaxKeys == 3

TreeKeys == {<<"a">>, <<"b">>, <<>>, <<"a", ".", "b">>}
TreeScalars == {Str(<<"x">>), IntVal(5)}

RECURSIVE DictsOfSize(_, _)
\* every dict with exactly n keys in all, nested ones counted, whose top-level
\* keys are drawn from keys
DictsOfSize(n, keys) ==
    IF n = 0 THEN {<<>>}
    ELSE UNION {
           {<<[k |-> k, v |-> s]>> \o rest :
                s \in TreeScalars, rest \in DictsOfSize(n - 1, keys \ {k})}
           \cup
           UNION {
             {<<[k |-> k, v |-> Map(c)]>> \o rest :
                  c \in DictsOfSize(m, TreeKeys),
                  rest \in DictsOfSize(n - 1 - m, keys \ {k})}
             : m \in 0..(n - 1)}
           : k \in keys}

Trees == UNION {DictsOfSize(n, TreeKeys) : n \in 0..MaxKeys}

InitTree ==
    /\ treePc = "input"
    /\ treeIn \in Trees
    /\ flat = None
    /\ rebuilt = None

\* flat = flatten_yaml(original)
Flatten ==
    /\ treePc = "input"
    /\ flat' = flatten_yaml(treeIn, <<>>)
    /\ treePc' = "flat"
    /\ UNCHANGED <<treeIn, rebuilt>>
    /\ UNCHANGED otherThanTree

\* result = unflatten_yaml(flat)
Unflatten ==
    /\ treePc = "flat"
    /\ rebuilt' = unflatten_yaml(flat)
    /\ treePc' = "rebuilt"
    /\ UNCHANGED <<treeIn, flat>>
    /\ UNCHANGED otherThanTree

NextTree == Flatten \/ Unflatten

(***************************************************************************)
(* The planner under test: a list of entries is cut into batches.          *)
(***************************************************************************)
MaxItems == 4

PlanEntries == {[k |-> <<"a">>, v |-> Str(<<"h", "i">>)], [k |-> <<"b">>, v |-> Str(<<"y", "o">>)]}

RECURSIVE ListsUpTo(_)
\* every list of at most n entries of PlanEntries
ListsUpTo(n) ==
    IF n = 0 THEN {<<>>}
    ELSE LET shorter == ListsUpTo(n - 1)
         IN  shorter \cup {Append(l, e) : l \in {u \in shorter : Len(u) = n - 1}, e \in PlanEntries}

InitPlan ==
    /\ planPc = "input"
    /\ planItems \in ListsUpTo(MaxItems)
    /\ planSize \in (-1)..(MaxBatchSize + 1)
    /\ planOut = None

\* chunks = list(chunked(translatable_items, self.settings['batch_size']))
Plan ==
    /\ planPc = "input"
    /\ IF ChunkedRaises(planItems, planSize)
       THEN planPc' = "raised" /\ planOut' = planOut
       ELSE planPc' = "planned" /\ planOut' = Chunked(planItems, planSize)
    /\ UNCHANGED <<planItems, planSize>>
    /\ UNCHANGED otherThanPlan

NextPlan == Plan

(***************************************************************************)
(* The response parser under test: one pass of the parsing loop over a     *)
(* line.                                                                   *)
(***************************************************************************)
MaxLineLen == 5

LineAlphabet == {"1", ".", " ", "a"}

RECURSIVE LinesUpTo(_)
\* every line over LineAlphabet of at most n code points
LinesUpTo(n) ==
    IF n = 0 THEN {<<>>}
    ELSE LET shorter == LinesUpTo(n - 1)
         IN  shorter \cup {Append(l, c) : l \in {u \in shorter : Len(u) = n - 1}, c \in LineAlphabet}

InitParse ==
    /\ parsePc = "input"
    /\ parseIn \in LinesUpTo(MaxLineLen)
    /\ parseOut = <<>>

\* the body of `for line in lines:` for one line
Parse ==
    /\ parsePc = "input"
    /\ parseOut' = ParseLine(parseIn)
    /\ parsePc' = "parsed"
    /\ UNCHANGED parseIn
    /\ UNCHANGED otherThanParse

NextParse == Parse

(***************************************************************************)
(* The file handlers of the formatter and the reverser under test: a       *)
(* document is loaded, flattened, converted leaf by leaf, unflattened and  *)
(* written.                                                                *)
(***************************************************************************)
MaxFileKeys == 2

FileKeys == {<<"a">>, <<"b">>, <<>>, <<"a", ".", "b">>}
FileScalars ==
    {Str(<<"h", "B">>), Str(<<"sc_h", "s">>), Str(<<" ">>), Str(<<>>),
     IntVal(5), BoolVal(TRUE), NullVal, ListVal(<<Str(<<"h">>)>>)}

RECURSIVE FileDictsOfSize(_, _)
\* every dict with exactly n keys in all, nested ones counted, whose top-level
\* keys are drawn from keys
FileDictsOfSize(n, keys) ==
    IF n = 0 THEN {<<>>}
    ELSE UNION {
           {<<[k |-> k, v |-> s]>> \o rest :
                s \in FileScalars, rest \in FileDictsOfSize(n - 1, keys \ {k})}
           \cup
           UNION {
             {<<[k |-> k, v |-> Map(c)]>> \o rest :
                  c \in FileDictsOfSize(m, FileKeys),
                  rest \in FileDictsOfSize(n - 1 - m, keys \ {k})}
             : m \in 0..(n - 1)}
           : k \in keys}

FileDocs == UNION {FileDictsOfSize(n, FileKeys) : n \in 0..MaxFileKeys}

\* what open() and yaml.safe_load yield for the handler's input file
FileSources ==
    {[kind |-> "unreadable"], [kind |-> "doc", d |-> NullVal]}
        \cup {[kind |-> "doc", d |-> Map(d)] : d \in FileDocs}

\* Formatter.__init__ / Reverser.__init__: both counts are 0
InitFile ==
    /\ filePc = "input"
    /\ fileOp = None
    /\ fileSrc \in FileSources
    /\ processed = <<>>
    /\ total_count = 0
    /\ converted_count = 0
    /\ fileResult = None
    /\ fileOut = None
    /\ fileReturned = Pending

\* the conversion the handler op applies to a text leaf
Convert(op, value) ==
    IF op = "format" THEN to_small_caps(value) ELSE from_small_caps(value)

\* isinstance(value, str) and value.strip()
IsText(value) == IsStr(value) /\ Strip(value.s) # <<>>

RECURSIVE ProcessLoop(_, _, _)
\* the loop over flat.items(): st holds processed and the two counts
ProcessLoop(op, items, st) ==
    IF items = <<>> THEN st
    ELSE LET key == Head(items).k
             value == Head(items).v
             converted == Convert(op, value)
         IN  ProcessLoop(op, Tail(items),
                 [processed |->
                      DictSet(st.processed, key,
                              IF IsText(value) THEN converted ELSE value),
                  total_count |-> st.total_count + 1,
                  converted_count |->
                      IF IsText(value) /\ converted # value
                      THEN st.converted_count + 1 ELSE st.converted_count])

\* the name of the file the handler op writes
ConvertedFile(op) == [t |-> "converted_file", op |-> op]

\* format_yaml_file (op = "format") or reverse_yaml_file (op = "reverse")
HandleFile(op) ==
    /\ filePc = "input"
    /\ fileOp' = op
    /\ IF fileSrc.kind # "doc"
       THEN /\ fileReturned' = None
            /\ filePc' = "done"
            /\ UNCHANGED <<processed, total_count, converted_count, fileResult, fileOut>>
       ELSE IF ~IsMap(fileSrc.d)
       THEN /\ fileReturned' = Raised("AttributeError")
            /\ filePc' = "raised"
            /\ UNCHANGED <<processed, total_count, converted_count, fileResult, fileOut>>
       ELSE LET st == ProcessLoop(op, flatten_yaml(fileSrc.d.d, <<>>),
                                  [processed |-> <<>>, total_count |-> 0,
                                   converted_count |-> 0])
                tree == unflatten_yaml(st.processed)
            IN  /\ processed' = st.processed
                /\ total_count' = st.total_count
                /\ converted_count' = st.converted_count
                /\ IF tree = Error
                   THEN /\ fileReturned' = Raised("TypeError")
                        /\ filePc' = "raised"
                        /\ UNCHANGED <<fileResult, fileOut>>
                   ELSE /\ fileResult' = tree
                        /\ filePc' = "done"
                        /\ \/ /\ fileOut' = tree
                              /\ fileReturned' = ConvertedFile(op)
                           \/ /\ fileOut' \in {fileOut, Partial}
                              /\ fileReturned' = None
    /\ UNCHANGED fileSrc
    /\ UNCHANGED otherThanFile

FormatFile == HandleFile("format")

ReverseFile == HandleFile("reverse")

NextFile == FormatFile \/ ReverseFile

IdleFile ==
    /\ filePc = "idle" /\ fileOp = None /\ fileSrc = None /\ processed = <<>>
    /\ total_count = 0 /\ converted_count = 0 /\ fileResult = None
    /\ fileOut = None /\ fileReturned = None

(***************************************************************************)
(* The license manager: the license file, the cached license object and    *)
(* the cached validity flag, under any sequence of its methods.            *)
(***************************************************************************)
\* the license keys tried, and those the licensing server activates
LicenseKeys == {"good1", "good2", "bad"}
ValidKeys == {"good1", "good2"}

\* LicenseManager.__init__: nothing cached; the license file may be there
\* from an earlier session
InitLicense ==
    /\ licPc = "ready"
    /\ license_file \in {None} \cup {Str(k) : k \in LicenseKeys}
    /\ cached_license = None
    /\ license_valid = None
    /\ licOp = None
    /\ licReturned = None

\* save_license_key(license_key): the file is written and the cache cleared,
\* or writing raises and False is returned
SaveLicenseKey ==
    /\ licPc = "ready"
    /\ licOp' = Str("save_license_key")
    /\ \E license_key \in LicenseKeys :
           \/ /\ license_file' = Str(license_key)
              /\ cached_license' = None
              /\ license_valid' = None
              /\ licReturned' = BoolVal(TRUE)
           \/ /\ licReturned' = BoolVal(FALSE)
              /\ UNCHANGED <<license_file, cached_license, license_valid>>
    /\ UNCHANGED licPc
    /\ UNCHANGED otherThanLic

\* clear_license(): the file is removed and the cache cleared, or removing
\* raises and False is returned
ClearLicense ==
    /\ licPc = "ready"
    /\ licOp' = Str("clear_license")
    /\ \/ /\ license_file' = None
          /\ cached_license' = None
          /\ license_valid' = None
          /\ licReturned' = BoolVal(TRUE)
       \/ /\ license_file # None
          /\ licReturned' = BoolVal(FALSE)
          /\ UNCHANGED <<license_file, cached_license, license_valid>>
    /\ UNCHANGED licPc
    /\ UNCHANGED otherThanLic

\* the licensing server activates the key
Activates(license_key) == license_key.s \in ValidKeys

\* the body of verify_license(license_key); given = None stands for the call
\* without a key
VerifyBody(given) ==
    LET license_key == IF given = None THEN license_file ELSE given
    IN  \/ \* the licensing library cannot be imported
           /\ licReturned' = BoolVal(FALSE)
           /\ UNCHANGED <<cached_license, license_valid>>
        \/ /\ license_key = None
           /\ licReturned' = BoolVal(FALSE)
           /\ UNCHANGED <<cached_license, license_valid>>
        \/ /\ license_key # None
           /\ license_valid # None /\ license_key = cached_license
           /\ licReturned' = license_valid
           /\ UNCHANGED <<cached_license, license_valid>>
        \/ /\ license_key # None
           /\ ~(license_valid # None /\ license_key = cached_license)
           /\ \/ \* Key.activate raises
                 /\ licReturned' = BoolVal(FALSE)
                 /\ UNCHANGED <<cached_license, license_valid>>
              \/ /\ ~Activates(license_key)
                 /\ license_valid' = BoolVal(FALSE)
                 /\ licReturned' = BoolVal(FALSE)
                 /\ UNCHANGED cached_license
              \/ /\ Activates(license_key)
                 /\ cached_license' = license_key
                 /\ license_valid' = BoolVal(TRUE)
                 /\ licReturned' = BoolVal(TRUE)

\* verify_license(): the stored key
VerifyStored ==
    /\ licPc = "ready"
    /\ licOp' = Str("verify_license()")
    /\ VerifyBody(None)
    /\ UNCHANGED <<licPc, license_file>>
    /\ UNCHANGED otherThanLic

\* verify_license(license_key): a key passed by the caller
VerifyGiven ==
    /\ licPc = "ready"
    /\ licOp' = Str("verify_license(license_key)")
    /\ \E k \in LicenseKeys : VerifyBody(Str(k))
    /\ UNCHANGED <<licPc, license_file>>
    /\ UNCHANGED otherThanLic

\* is_license_valid()
IsLicenseValid ==
    /\ licPc = "ready"
    /\ licOp' = Str("is_license_valid")
    /\ IF license_valid # None
       THEN /\ licReturned' = license_valid
            /\ UNCHANGED <<cached_license, license_valid>>
       ELSE VerifyBody(None)
    /\ UNCHANGED <<licPc, license_file>>
    /\ UNCHANGED otherThanLic

NextLicense ==
    SaveLicenseKey \/ ClearLicense \/ VerifyStored \/ VerifyGiven \/ IsLicenseValid

IdleLicense ==
    /\ licPc = "idle" /\ license_file = None /\ cached_license = None
    /\ license_valid = None /\ licOp = None /\ licReturned = None

IdleParse == parsePc = "idle" /\ parseIn = <<>> /\ parseOut = <<>>
IdlePlan == planPc = "idle" /\ planItems = <<>> /\ planSize = 0 /\ planOut = None
IdleCaps == capsPc = "idle" /\ capsIn = None /\ capsOut = None /\ capsBack = None
IdleTree == treePc = "idle" /\ treeIn = None /\ flat = None /\ rebuilt = None

vars == <<capsVars, treeVars, planVars, parseVars, fileVars, licVars, runVars>>

Init == IdleCaps /\ IdleTree /\ IdlePlan /\ IdleParse /\ IdleFile /\ IdleLicense /\ InitRun
Spec == Init /\ [][Next]_vars

InitCapsOnly == InitCaps /\ IdleTree /\ IdlePlan /\ IdleParse /\ IdleFile /\ IdleLicense /\ IdleRun
SpecCaps == InitCapsOnly /\ [][NextCaps]_vars

InitTreeOnly == IdleCaps /\ InitTree /\ IdlePlan /\ IdleParse /\ IdleFile /\ IdleLicense /\ IdleRun
SpecTree == InitTreeOnly /\ [][NextTree]_vars

InitPlanOnly == IdleCaps /\ IdleTree /\ InitPlan /\ IdleParse /\ IdleFile /\ IdleLicense /\ IdleRun
SpecPlan == InitPlanOnly /\ [][NextPlan]_vars

InitParseOnly == IdleCaps /\ IdleTree /\ IdlePlan /\ InitParse /\ IdleFile /\ IdleLicense /\ IdleRun
SpecParse == InitParseOnly /\ [][NextParse]_vars

InitFileOnly == IdleCaps /\ IdleTree /\ IdlePlan /\ IdleParse /\ InitFile /\ IdleLicense /\ IdleRun
SpecFile == InitFileOnly /\ [][NextFile]_vars

InitLicenseOnly ==
    IdleCaps /\ IdleTree /\ IdlePlan /\ IdleParse /\ IdleFile /\ InitLicense /\ IdleRun
SpecLicense == InitLicenseOnly /\ [][NextLicense]_vars



(***************************************************************************)
(* Claims about the transcoder.                                            *)
(***************************************************************************)
\* the span sp of x stands unchanged at the same place in y
SpanKept(x, y, sp) ==
    /\ sp[2] <= Len(y)
    /\ SubSeq(y, sp[1], sp[2]) = SubSeq(x, sp[1], sp[2])

\* x is nothing but placeholders, one after the other
OnlyPlaceholders(x) ==
    LET spans == FindIter(x)
    IN  /\ Len(spans) > 0
        /\ spans[1][1] = 1
        /\ spans[Len(spans)][2] = Len(x)
        /\ \A k \in 1..(Len(spans) - 1) : spans[k + 1][1] = spans[k][2] + 1

\* C1: every %...% span, {...} span and &-code of x stands byte-identical, at
\* its place, in to_small_caps(x) and in from_small_caps(to_small_caps(x)),
\* and a text made only of placeholders is returned unchanged by to_small_caps.
C1_PlaceholdersPreserved ==
    (IsStr(capsIn) /\ capsPc \in {"encoded", "decoded"}) =>
        LET spans == FindIter(capsIn.s)
        IN  /\ \A k \in 1..Len(spans) : SpanKept(capsIn.s, capsOut.s, spans[k])
            /\ capsPc = "decoded" =>
                   \A k \in 1..Len(spans) : SpanKept(capsIn.s, capsBack.s, spans[k])
            /\ OnlyPlaceholders(capsIn.s) => capsOut = capsIn

RECURSIVE TagSpansFrom(_, _)
\* re.findall(r'<[^>]*>', text) from position i on, as spans
TagSpansFrom(text, i) ==
    IF i > Len(text) THEN <<>>
    ELSE LET e == IF text[i] = "<" THEN NextOf(text, i + 1, ">") ELSE 0
         IN  IF e = 0 THEN TagSpansFrom(text, i + 1)
             ELSE <<(<<i, e>>)>> \o TagSpansFrom(text, e + 1)

InSomeSpan(spans, i) == \E k \in 1..Len(spans) : spans[k][1] <= i /\ i <= spans[k][2]

\* C2: every angle-bracket tag <...> of x appears byte-identical in
\* to_small_caps(x), and the letters outside the tags are converted to small caps.
C2_TagsPreserved ==
    (IsStr(capsIn) /\ capsPc \in {"encoded", "decoded"}) =>
        LET x == capsIn.s
            tags == TagSpansFrom(x, 1)
        IN  /\ \A k \in 1..Len(tags) :
                   Contains(capsOut.s, SubSeq(x, tags[k][1], tags[k][2]))
            /\ FindIter(x) = <<>> =>
                   /\ Len(capsOut.s) = Len(x)
                   /\ \A i \in 1..Len(x) :
                          ~InSomeSpan(tags, i) => capsOut.s[i] = EncodeChar(x[i])

(***************************************************************************)
(* Claims about the flattener.                                             *)
(***************************************************************************)
RECURSIVE DotFree(_)
\* no key of the dict d, at any depth, contains the separator
DotFree(d) ==
    \A i \in 1..Len(d) :
        /\ ~Contains(d[i].k, <<".">>)
        /\ IsMap(d[i].v) => DotFree(d[i].v.d)

RECURSIVE Leaves(_, _)
\* the leaves of dict d in depth-first order, siblings in insertion order,
\* each with its path: the keys from the root joined by "."
Leaves(d, path) ==
    IF d = <<>> THEN <<>>
    ELSE LET here == IF path = <<>> THEN Head(d).k ELSE path \o <<".">> \o Head(d).k
             first == IF IsMap(Head(d).v) THEN Leaves(Head(d).v.d, here)
                                          ELSE <<[k |-> here, v |-> Head(d).v]>>
         IN  first \o Leaves(Tail(d), path)

\* C3: for every nested tree whose keys contain no '.', unflatten_yaml of
\* flatten_yaml gives the tree back, and flatten_yaml lists the leaves in
\* depth-first order, siblings in insertion order.
C3_RoundTrip ==
    (treePc = "rebuilt" /\ DotFree(treeIn)) =>
        /\ rebuilt # Error
        /\ DictEq(rebuilt, Map(treeIn))
        /\ flat = Leaves(treeIn, <<>>)

(***************************************************************************)
(* Claims about the translation pipeline.                                  *)
(***************************************************************************)
\* the flat dict or leaf list d holds the entry e
HasEntry(d, e) == \E i \in 1..Len(d) : d[i] = e

\* the persisted document doc holds the leaf e: its path and its value
HasLeaf(doc, e) == IsMap(doc) /\ HasEntry(Leaves(doc.d, <<>>), e)

\* some batch of the run has succeeded so far
SomeBatchOk == \E i \in 1..Len(batchOk) : batchOk[i]

\* the batch in hand has just failed and nothing has ended the run
BatchJustFailed ==
    /\ batch_num >= 1
    /\ Len(batchOk) = batch_num
    /\ ~batchOk[batch_num]
    /\ returned = Pending

\* C4: when a batch fails after exhausting its retries the run goes on with
\* the loop, every batch is executed, and at the end of the run every item of
\* a failed batch is in the Output Map and in the output document with its
\* source value.
C4_FailedBatchKeepsSource ==
    settings.max_retries >= 1 =>
        /\ BatchJustFailed => pc = "loop"
        /\ (pc = "done" /\ returned = OutputFile) =>
               /\ Len(batchOk) = Len(chunks)
               /\ \A i \in 1..Len(batchOk) :
                      ~batchOk[i] =>
                          \A j \in 1..Len(chunks[i]) :
                              /\ HasEntry(output, chunks[i][j])
                              /\ HasLeaf(disk, chunks[i][j])

\* the step is an API attempt that failed
FailedAttempt == calls' = calls + 1 /\ batchOk' # Append(batchOk, TRUE)

\* C5: a batch gets at most max_retries API attempts; a failed attempt that
\* another attempt follows is followed by a sleep of 2^attempt seconds, and
\* nothing else sleeps; when the last attempt fails no sleep follows, the
\* batch is marked failed, the Output Map is as it was, and the run is back
\* in the loop, where the next batch is taken.
C5_RetryPolicy ==
    [][ /\ calls' <= (IF settings.max_retries > 0 THEN settings.max_retries ELSE 0)
        /\ FailedAttempt =>
               IF calls' < settings.max_retries
               THEN /\ pc' = "api"
                    /\ delays' = Append(delays, 2 ^ calls)
                    /\ now' = now + 2 ^ calls
                    /\ batchOk' = batchOk
               ELSE /\ pc' = "loop"
                    /\ delays' = delays
                    /\ now' = now
                    /\ batchOk' = Append(batchOk, FALSE)
                    /\ batch_num' = batch_num
                    /\ output' = output
                    /\ returned' = Pending
        /\ ~FailedAttempt => (delays' = delays \/ delays' = <<>>)
      ]_vars

\* a batch has used up three attempts with two sleeps, and more batches wait
C5_Witness ==
    /\ BatchJustFailed
    /\ pc = "loop"
    /\ settings.max_retries = 3
    /\ calls = 3
    /\ delays = <<1, 2>>
    /\ batch_num < Len(chunks)

\* C6: when the API call of a batch returns on attempt k+1 after k failed
\* attempts (k < max_retries), the batch succeeds, exactly k sleeps have
\* occurred, and the sleeps are 1, 2, 4, ... seconds, none shorter than the
\* one before.
C6_RetryThenSuccess ==
    pc = "save" =>
        LET k == calls - 1
        IN  /\ k < settings.max_retries
            /\ Len(batchOk) = batch_num
            /\ batchOk[batch_num]
            /\ Len(delays) = k
            /\ \A j \in 1..k : delays[j] = 2 ^ (j - 1)
            /\ \A j \in 2..k : delays[j - 1] <= delays[j]

\* a batch has succeeded on its third attempt
C6_Witness == pc = "save" /\ calls = 3 /\ Len(delays) = 2 /\ batchOk[batch_num]

\* the number of digits the line starts with
LeadingDigits(line) ==
    CHOOSE d \in 0..Len(line) :
        /\ \A i \in 1..d : IsDigit(line[i])
        /\ d = Len(line) \/ ~IsDigit(line[d + 1])

\* the line is a number, a dot, a space and a text
IsNumberedLine(line) ==
    LET d == LeadingDigits(line)
    IN  /\ d >= 1
        /\ Len(line) >= d + 3
        /\ line[d + 1] = "."
        /\ line[d + 2] = " "

\* the text of a numbered line
LineText(line) == From(line, LeadingDigits(line) + 3)

\* the lines of a response content
RespLines(content) == IF content = <<>> THEN <<>> ELSE Split(content, "\n")

\* the response to the batch in hand is p numbered lines, fewer than the items
ShortResponse ==
    /\ pc = "save"
    /\ \A i \in 1..Len(RespLines(resp)) : IsNumberedLine(RespLines(resp)[i])
    /\ Len(RespLines(resp)) < Len(Chunk)

\* C7: when the response to a batch of n items is p < n numbered lines, the
\* first p items get the texts of the lines in order, the other n - p items
\* get their source values and are each reported missing, and the batch
\* counts as succeeded.
C7_PartialResponse ==
    ShortResponse =>
        LET lines == RespLines(resp)
            p == Len(lines)
        IN  /\ \A i \in 1..p :
                   HasEntry(output, [k |-> Chunk[i].k, v |-> Str(LineText(lines[i]))])
            /\ \A i \in (p + 1)..Len(Chunk) :
                   /\ HasEntry(output, Chunk[i])
                   /\ \E w \in 1..Len(warned) : warned[w] = Chunk[i].k
            /\ Len(batchOk) = batch_num
            /\ batchOk[batch_num]
            /\ translated_count >= Len(Chunk)

\* a batch of two items got one numbered line
C7_Witness ==
    /\ ShortResponse
    /\ Len(Chunk) = 2
    /\ Len(RespLines(resp)) = 1
    /\ warned # <<>>

\* the Output Map holds every pass-through leaf of the source and every item
\* of every batch that succeeded
OutputIsFull ==
    /\ \A i \in 1..Len(Leaves(source.d.d, <<>>)) :
           LET e == Leaves(source.d.d, <<>>)[i]
           IN  HasEntry(translatable_items, e)
                   \/ \E o \in 1..Len(output) : output[o].k = e.k
    /\ \A i \in 1..Len(batchOk) :
           batchOk[i] => \A j \in 1..Len(chunks[i]) :
                             \E o \in 1..Len(output) : output[o].k = chunks[i][j].k

\* C8: the output file changes only in the step that follows a successful
\* batch; that step, unless it raises, leaves the file holding the unflattened
\* Output Map, which has every pass-through leaf and every item applied so
\* far; the step in which a batch fails writes nothing and leads to no write.
C8_WriteAfterSuccess ==
    [][ /\ disk' # disk =>
               /\ pc = "save"
               /\ batchOk[batch_num]
               /\ disk' \in {unflatten_yaml(output), Partial}
        /\ (pc = "save" /\ returned' = Pending) =>
               /\ batchOk[batch_num]
               /\ disk' = unflatten_yaml(output)
               /\ IsMap(disk')
               /\ OutputIsFull
        /\ (pc = "api" /\ pc' = "save") => batchOk' = Append(batchOk, TRUE)
        /\ batchOk' = Append(batchOk, FALSE) => (disk' = disk /\ pc' = "loop")
        /\ (pc' = "loop" /\ ~SomeBatchOk') => disk' = None
      ]_vars

\* a first batch was written, and a second batch failed and left the file alone
C8_Witness ==
    /\ pc = "loop"
    /\ batchOk = <<TRUE, FALSE>>
    /\ IsMap(disk)
    /\ disk = unflatten_yaml(output)

\* every leaf of the document on disk stays, with its value, in the document
\* that the step writes; and between batches, once a batch has succeeded, the
\* document on disk is the unflattened Output Map
GrowsInStep ==
    /\ (IsMap(disk) /\ IsMap(disk')) =>
           \A i \in 1..Len(Leaves(disk.d, <<>>)) : HasLeaf(disk', Leaves(disk.d, <<>>)[i])
    /\ (pc' = "loop" /\ SomeBatchOk') => disk' = unflatten_yaml(output')

RECURSIVE PlainKeys(_)
\* every key of the dict d, at any depth, is non-empty and has no separator
PlainKeys(d) ==
    \A i \in 1..Len(d) :
        /\ d[i].k # <<>>
        /\ ~Contains(d[i].k, <<".">>)
        /\ IsMap(d[i].v) => PlainKeys(d[i].v.d)

C10_WriteFailureNotFatal == ~(pc = "raised" /\ returned = Raised("OSError"))

(***************************************************************************)
(* Claims about the planner.                                               *)
(***************************************************************************)
RECURSIVE Concat(_)
\* the lists of ls, one after the other
Concat(ls) == IF ls = <<>> THEN <<>> ELSE Head(ls) \o Concat(Tail(ls))

\* ceil(m / n)
CeilDiv(m, n) == (m + n - 1) \div n

\* C11: for a batch size n >= 1 and m >= 0 entries the planner gives
\* ceil(m/n) batches, each but the last of exactly n entries, the last one
\* non-empty and of at most n, and the batches in order give the entries back.
C11_PlanPartitions ==
    (planPc \in {"planned", "raised"} /\ planSize >= 1) =>
        /\ planPc = "planned"
        /\ Len(planOut) = CeilDiv(Len(planItems), planSize)
        /\ \A i \in 1..(Len(planOut) - 1) : Len(planOut[i]) = planSize
        /\ Len(planOut) > 0 =>
               /\ Len(planOut[Len(planOut)]) >= 1
               /\ Len(planOut[Len(planOut)]) <= planSize
        /\ Concat(planOut) = planItems

\* four entries were cut by three into a full batch and a shorter one
C11_Witness ==
    /\ planPc = "planned"
    /\ planSize = 3
    /\ Len(planItems) = 4
    /\ Len(planOut) = 2
    /\ Len(planOut[2]) = 1

\* C12: with a batch size below 1 the planning either raises an error or puts
\* every translatable entry in some batch, as a size clamped to 1 would.
C12_SmallSizeFailsOrClamps ==
    (settings.batch_size < 1 /\ pc \notin {"idle", "start"} /\ translatable_items # <<>>) =>
        \/ returned = Raised("ValueError")
        \/ \A i \in 1..Len(translatable_items) :
               \E b \in 1..Len(chunks) : HasEntry(chunks[b], translatable_items[i])

\* s is the lower-case word w, whatever the case of its letters
SameIgnoringCase(s, w) == Len(s) = Len(w) /\ \A i \in 1..Len(s) : Lower(s[i]) = w[i]

\* the leaf value v is a string, not the literal true or false whatever the
\* case, and not empty after trimming
IsTranslatableLeaf(v) ==
    /\ v.t = "str"
    /\ ~SameIgnoringCase(v.s, <<"t", "r", "u", "e">>)
    /\ ~SameIgnoringCase(v.s, <<"f", "a", "l", "s", "e">>)
    /\ \E i \in 1..Len(v.s) : ~IsSpace(v.s[i])

\* C13: the queuing step puts every flattened leaf in exactly one place: a
\* string that is not true/false ignoring case and not blank goes to the queue,
\* every other leaf goes to the Output Map with its value, in that step; the
\* queue keeps the flatten order.
C13_Classification ==
    [][ (pc = "start" /\ source.kind = "doc" /\ IsMap(source.d)) =>
            LET leaves == flatten_yaml(source.d.d, <<>>)
            IN  /\ translatable_items' =
                       SelectSeq(leaves, LAMBDA e : IsTranslatableLeaf(e.v))
                /\ \A i \in 1..Len(leaves) :
                       IF IsTranslatableLeaf(leaves[i].v)
                       THEN /\ HasEntry(translatable_items', leaves[i])
                            /\ ~HasEntry(output', leaves[i])
                       ELSE /\ HasEntry(output', leaves[i])
                            /\ ~HasEntry(translatable_items', leaves[i])
                /\ Len(translatable_items') + Len(output') = Len(leaves)
      ]_vars

\* the queuing step has classified a document with leaves of both kinds: a
\* capitalised boolean word, a blank string and a number went to the Output Map
C13_Witness ==
    /\ pc = "loop"
    /\ batch_num = 0
    /\ Len(translatable_items) = 3
    /\ Len(output) = 3
    /\ HasEntry(output, [k |-> <<"s", ".", "f">>, v |-> Str(<<"T", "r", "u", "e">>)])
    /\ HasEntry(output, [k |-> <<"s", ".", "w">>, v |-> Str(<<" ">>)])

(***************************************************************************)
(* More claims about the transcoder.                                       *)
(***************************************************************************)
Alphabet ==
    <<"a", "b", "c", "d", "e", "f", "g", "h", "i", "j", "k", "l", "m",
      "n", "o", "p", "q", "r", "s", "t", "u", "v", "w", "x", "y", "z">>

Capitals ==
    <<"A", "B", "C", "D", "E", "F", "G", "H", "I", "J", "K", "L", "M",
      "N", "O", "P", "Q", "R", "S", "T", "U", "V", "W", "X", "Y", "Z">>

\* the small-caps glyph of the i-th letter; s and x have none of their own
Glyphs ==
    <<"sc_a", "sc_b", "sc_c", "sc_d", "sc_e", "sc_f", "sc_g", "sc_h", "sc_i",
      "sc_j", "sc_k", "sc_l", "sc_m", "sc_n", "sc_o", "sc_p", "sc_q", "sc_r",
      "s", "sc_t", "sc_u", "sc_v", "sc_w", "x", "sc_y", "sc_z">>

\* the place in the alphabet of the Latin letter c, 0 when c is none; the
\* Kelvin sign is the letter K (its canonical equivalent)
LetterIndex(c) ==
    IF c = "K_sign" THEN 11
    ELSE IF \E i \in 1..26 : c = Alphabet[i] \/ c = Capitals[i]
    THEN CHOOSE i \in 1..26 : c = Alphabet[i] \/ c = Capitals[i]
    ELSE 0

\* the text x has no protected span: no placeholder and no tag
NoProtectedSpan(x) == FindIter(x) = <<>> /\ TagSpansFrom(x, 1) = <<>>

IsLetter(c) ==
    \/ LetterIndex(c) # 0
    \/ \E i \in 1..26 : c = Glyphs[i]
    \/ c = "o_dacute"

\* every letter of x is a lower-case Latin letter other than s and x
RoundTripLetters(x) ==
    \A i \in 1..Len(x) :
        IsLetter(x[i]) => \E j \in 1..26 : x[i] = Alphabet[j] /\ x[i] \notin {"s", "x"}

\* C15: for a placeholder-free string x whose letters are all lower-case
\* Latin letters other than s and x, from_small_caps(to_small_caps(x)) = x.
C15_RoundTripLowercase ==
    (capsPc = "decoded" /\ IsStr(capsIn) /\ FindIter(capsIn.s) = <<>>
         /\ RoundTripLetters(capsIn.s)) =>
        capsBack = capsIn

\* "hello world" was encoded to glyphs and decoded
C15_Witness ==
    /\ capsPc = "decoded"
    /\ capsIn = Str(<<"h", "e", "l", "l", "o", " ", "w", "o", "r", "l", "d">>)
    /\ capsOut # capsIn
    /\ capsBack = capsIn

\* the text y holds text of the form __PLACEHOLDER_<k>__
HasSentinelText(y) ==
    \E i \in 1..Len(y), d \in 1..Len(y) :
        /\ StartsAt(y, i, <<"_", "_", "P", "L", "A", "C", "E", "H", "O", "L", "D", "E", "R", "_">>)
        /\ i + 13 + d <= Len(y)
        /\ \A j \in (i + 14)..(i + 13 + d) : IsDigit(y[j])
        /\ StartsAt(y, i + 14 + d, <<"_", "_">>)

\* the Latin letter of a small-caps glyph; any other code point as it is
LetterOfGlyph(c) ==
    IF \E j \in 1..26 : c = Glyphs[j]
    THEN Alphabet[CHOOSE j \in 1..26 : c = Glyphs[j]]
    ELSE c

\* C16: for a string y that holds no text of the form __PLACEHOLDER_<k>__,
\* from_small_caps(y) is y with every %...% span, {...} span and &-code as it
\* was and where it was, and every code point outside these spans mapped from
\* its small-caps glyph back to its letter.
C16_DecodeKeepsPlaceholders ==
    (capsPc = "reversed" /\ IsStr(capsIn) /\ ~HasSentinelText(capsIn.s)) =>
        LET y == capsIn.s
            spans == FindIter(y)
        IN  capsBack = Str([i \in 1..Len(y) |->
                               IF InSomeSpan(spans, i) THEN y[i] ELSE LetterOfGlyph(y[i])])

\* a text with glyphs inside and outside of placeholders was decoded: the
\* glyphs inside stayed, the ones outside became letters
C16_Witness ==
    /\ capsPc = "reversed"
    /\ capsIn = Str(<<"sc_h", "%", "sc_p", "%", "{", "sc_h", "}", "&", "sc_c", "&", "c", "sc_h">>)
    /\ capsBack = Str(<<"h", "%", "sc_p", "%", "{", "sc_h", "}", "&", "c", "&", "c", "h">>)

\* C17: to_small_caps leaves a backslash followed by n as it is, and converts
\* the letters around it: hello\nworld, with a literal backslash, becomes the
\* glyphs of hello, the backslash and the n, and the glyphs of world.
C17_BackslashNKept ==
    (capsPc \in {"encoded", "decoded"} /\ IsStr(capsIn) /\ NoProtectedSpan(capsIn.s)) =>
        /\ Len(capsOut.s) = Len(capsIn.s)
        /\ \A i \in 1..(Len(capsIn.s) - 1) :
               (capsIn.s[i] = "\\" /\ capsIn.s[i + 1] = "n") =>
                   (capsOut.s[i] = "\\" /\ capsOut.s[i + 1] = "n")
        /\ capsIn = Str(<<"h", "e", "l", "l", "o", "\\", "n", "w", "o", "r", "l", "d">>) =>
               capsOut = Str(<<"sc_h", "sc_e", "sc_l", "sc_l", "sc_o", "\\", "n",
                               "sc_w", "sc_o", "sc_r", "sc_l", "sc_d">>)

(***************************************************************************)
(* More claims about the translation pipeline.                             *)
(***************************************************************************)
\* C18: a run that comes to its end with at least one successful batch returns
\* the output file name, and the history entry it records has the status
\* 'completed', whether or not other batches failed.
C18_PartialSuccessCompletes ==
    (pc = "done" /\ SomeBatchOk) =>
        /\ returned = OutputFile
        /\ history # None =>
               /\ history.status = "completed"
               /\ history.items_translated >= 1

\* a run with a failed and a successful batch ended as completed
C18_Witness ==
    /\ pc = "done"
    /\ \E i \in 1..Len(batchOk) : batchOk[i]
    /\ \E i \in 1..Len(batchOk) : ~batchOk[i]
    /\ returned = OutputFile
    /\ history # None
    /\ history.status = "completed"
    /\ history.items_translated < history.total_items

\* C19: when the input cannot be opened or parsed, the run ends with the
\* failure value None and has classified nothing, planned nothing, called the
\* API not once and written nothing: the output file is as it was, and no
\* history entry is recorded.
C19_LoadFailureAborts ==
    (source.kind \in {"unreadable", "malformed"} /\ pc \notin {"idle", "start"}) =>
        /\ pc = "done"
        /\ returned = None
        /\ output = <<>>
        /\ translatable_items = <<>>
        /\ chunks = <<>>
        /\ batch_num = 0
        /\ calls = 0
        /\ disk = None
        /\ history = None

\* a run over a malformed document has ended
C19_Witness ==
    /\ source.kind = "malformed"
    /\ pc = "done"
    /\ returned = None
    /\ disk = None

\* the leaf paths of the document doc, in the order of the document
LeafPaths(doc) == [i \in 1..Len(Leaves(doc.d, <<>>)) |-> Leaves(doc.d, <<>>)[i].k]

\* the place of the path k in the list of paths ps, 0 when it is not there
PathPos(ps, k) ==
    IF \E i \in 1..Len(ps) : ps[i] = k THEN CHOOSE i \in 1..Len(ps) : ps[i] = k ELSE 0

\* C20: the document a translation run writes has its leaf paths in the same
\* relative order as the input document has them (for documents with plain
\* keys, where a leaf path names one leaf).
C20_KeyOrderKept ==
    (IsMap(disk) /\ source.kind = "doc" /\ IsMap(source.d) /\ PlainKeys(source.d.d)) =>
        LET written == LeafPaths(disk)
            given == LeafPaths(source.d)
        IN  \A i, j \in 1..Len(written) :
                i < j => /\ PathPos(given, written[i]) # 0
                         /\ PathPos(given, written[i]) < PathPos(given, written[j])

(***************************************************************************)
(* Claims about the parsing of a response.                                 *)
(***************************************************************************)
\* the number a numbered line starts with
LineNumber(line) ==
    CHOOSE n \in 0..99 : DecimalOf(n) = Upto(line, LeadingDigits(line))

\* C21: the item i of a batch gets the text of the response line numbered i:
\* every numbered line of the response whose number i is the number of an item
\* of the batch, and of no other line, gives its text to item i, whatever the
\* order of the lines.
C21_MatchedByNumber ==
    pc = "save" =>
        LET lines == RespLines(resp)
        IN  \A l \in 1..Len(lines) :
                (/\ IsNumberedLine(lines[l])
                 /\ LineNumber(lines[l]) \in 1..Len(Chunk)
                 /\ \A m \in 1..Len(lines) :
                        (m # l /\ IsNumberedLine(lines[m])) =>
                            LineNumber(lines[m]) # LineNumber(lines[l]))
                    => HasEntry(output, [k |-> Chunk[LineNumber(lines[l])].k,
                                         v |-> Str(LineText(lines[l]))])

\* the line starts with a decimal number that '. ' follows at once
HasNumberPrefix(line) ==
    /\ LeadingDigits(line) >= 1
    /\ StartsAt(line, LeadingDigits(line) + 1, <<".", " ">>)

\* C22: an accepted line loses text from its front only when it starts with a
\* decimal number followed at once by '. ', and then it loses that number and
\* the '. ' and nothing more; any other accepted line is taken as it is,
\* trimmed.
C22_OnlyNumberPrefixRemoved ==
    (parsePc = "parsed" /\ parseOut # <<>>) =>
        /\ Len(parseOut) = 1
        /\ parseOut[1] = IF HasNumberPrefix(parseIn)
                         THEN From(parseIn, LeadingDigits(parseIn) + 3)
                         ELSE Strip(parseIn)

(***************************************************************************)
(* Claims about the telemetry.                                             *)
(***************************************************************************)
TimeFields == {"started", "finished", "api_start", "api_end", "file_start", "file_end"}

\* the record b is what a step may make of the record a
RecordStep(a, b) ==
    /\ \/ b.status = a.status
       \/ a.status = "pending" /\ b.status = "running"
       \/ a.status = "running" /\ b.status = "completed"
    /\ \A f \in TimeFields : a[f] # 0 => b[f] = a[f]
    /\ a.status = "completed" => b = a

\* C23: in every step of a run every batch's telemetry record keeps its
\* status or moves it from pending to running or from running to completed,
\* a timestamp once set is not set again, and a completed record is not
\* written again.
C23_TelemetryMonotone ==
    [][ Len(telemetry') = Len(telemetry) =>
            \A i \in 1..Len(telemetry) : RecordStep(telemetry[i], telemetry'[i]) ]_vars

\* the first batch is completed with all its timestamps and the second is running
C23_Witness ==
    /\ Len(telemetry) >= 2
    /\ telemetry[1].status = "completed"
    /\ \A f \in TimeFields : telemetry[1][f] # 0
    /\ telemetry[2].status = "running"
    /\ telemetry[2].api_end # 0

\* C24: the final summary never divides by a total elapsed time of zero: a
\* run whose clock has not moved since its start still gets its summary, and
\* no ZeroDivisionError ends the run.
C24_NoDivisionByZero == returned # Raised("ZeroDivisionError")

\* the batches whose telemetry record has the status running
Running == {i \in 1..Len(telemetry) : telemetry[i].status = "running"}

\* C25: at every point of a run at most one batch's record has the status
\* running: a batch, succeeded or failed, has left that status before the
\* next batch is started.
C25_OneRunning == Cardinality(Running) <= 1

(***************************************************************************)
(* Claims about the outcome of a run.                                      *)
(***************************************************************************)
RECURSIVE SucceededSize(_)
\* the sizes of the first n batches that succeeded, summed
SucceededSize(n) ==
    IF n = 0 THEN 0
    ELSE SucceededSize(n - 1) + (IF batchOk[n] THEN Len(chunks[n]) ELSE 0)

\* C26: the count of translated items is the sum of the sizes of the batches
\* that succeeded, items that fell back to their source text included; it is
\* never more than the number of translatable items, it is 0 exactly when no
\* batch succeeded, and it is the count the history entry reports at the end.
C26_CountIsSucceededSizes ==
    /\ translated_count = SucceededSize(Len(batchOk))
    /\ translated_count <= Len(translatable_items)
    /\ translated_count = 0 <=> ~SomeBatchOk
    /\ (pc = "done" /\ history # None) =>
           /\ history.items_translated = SucceededSize(Len(batchOk))
           /\ history.total_items = Len(translatable_items)

\* a run ended with a failed batch, and with a successful batch in which an
\* item fell back to its source text and was counted
C26_Witness ==
    /\ pc = "done"
    /\ history # None
    /\ warned # <<>>
    /\ \E i \in 1..Len(batchOk) : ~batchOk[i]
    /\ history.items_translated >= 2
    /\ history.items_translated < history.total_items

\* C27: a run with at least one translatable item in which every batch has
\* failed writes no output file at any point, and when it comes to its end it
\* records the history status 'failed' and returns the output file name, the
\* value a successful run returns, not None.
C27_AllFailedStillReturnsFile ==
    (translatable_items # <<>> /\ ~SomeBatchOk) =>
        /\ disk = None
        /\ pc = "done" =>
               /\ returned = OutputFile
               /\ history # None =>
                      /\ history.status = "failed"
                      /\ history.items_translated = 0

\* a run of two batches that both failed after an API call has ended
C27_Witness ==
    /\ pc = "done"
    /\ batchOk = <<FALSE, FALSE>>
    /\ calls >= 1
    /\ disk = None
    /\ returned = OutputFile
    /\ history # None
    /\ history.status = "failed"

\* C28: with max_retries 0 or negative no API call is made, every batch that
\* was started is reported as failed, nothing is translated and no output file
\* is written; a run that comes to its end has gone through all its batches.
C28_NoRetriesNoCalls ==
    settings.max_retries <= 0 =>
        /\ calls = 0
        /\ resp = None
        /\ \A i \in 1..Len(batchOk) : ~batchOk[i]
        /\ pc \in {"loop", "done"} => Len(batchOk) = batch_num
        /\ (pc = "done" /\ returned = OutputFile) => Len(batchOk) = Len(chunks)
        /\ translated_count = 0
        /\ \A i \in 1..Len(translatable_items) :
               \A o \in 1..Len(output) : output[o].k # translatable_items[i].k
        /\ disk = None

\* a run with max_retries 0 has gone through two batches without a call
C28_Witness ==
    /\ settings.max_retries = 0
    /\ pc = "done"
    /\ batchOk = <<FALSE, FALSE>>
    /\ calls = 0
    /\ returned = OutputFile

RECURSIVE LeafSegs(_, _)
\* the leaves of dict d, each with its path: the sequence of the keys from
\* the root down to the leaf
LeafSegs(d, path) ==
    IF d = <<>> THEN <<>>
    ELSE LET here == Append(path, Head(d).k)
             first == IF IsMap(Head(d).v) THEN LeafSegs(Head(d).v.d, here)
                                          ELSE <<[p |-> here, v |-> Head(d).v]>>
         IN  first \o LeafSegs(Tail(d), path)

\* the handler has gone through a document and built its result
FileConverted == filePc = "done" /\ fileSrc.kind = "doc" /\ IsMap(fileResult)

\* what C29 says of an input document given and the document built from it
FrameEffect(given, built) ==
    /\ {given[i].p : i \in 1..Len(given)} = {built[j].p : j \in 1..Len(built)}
    /\ \A i \in 1..Len(given) :
           ~IsText(given[i].v) => \E j \in 1..Len(built) : built[j] = given[i]
    /\ total_count = Len(given)
    /\ converted_count =
           Cardinality({i \in 1..Len(given) :
                           ~\E j \in 1..Len(built) : built[j] = given[i]})
    /\ converted_count <= total_count

\* C29: format_yaml_file and reverse_yaml_file keep the set of leaf paths of
\* the input, leave every non-string leaf and every empty or whitespace-only
\* string leaf as it is, and end with total_count the number of leaves and
\* converted_count the number of leaves whose value changed.
C29_FrameEffect ==
    FileConverted =>
        FrameEffect(LeafSegs(fileSrc.d.d, <<>>), LeafSegs(fileResult.d, <<>>))

\* what verifying the stored key gives: TRUE when there is a stored key and
\* the licensing server activates it
StoredKeyVerifies == BoolVal(license_file # None /\ Activates(license_file))

\* C30: after any sequence of save_license_key, clear_license, verify_license
\* (stored key or a key passed in) and is_license_valid, the cached validity
\* flag, whenever it is set, is the verification result for the stored key.
C30_FlagIsForStoredKey ==
    license_valid # None => license_valid = StoredKeyVerifies

=============================================================================
